---- MODULE Spec2Model ----
(***************************************************************************)
(* The upload -> analyze -> report session lifecycle of src/app.py.        *)
(*                                                                         *)
(* One step of the model is one run of the script, triggered by one user   *)
(* interaction (choosing files, selecting a page, clicking a button); the  *)
(* step includes the rerun that st.experimental_rerun() requests.          *)
(*                                                                         *)
(* A record of st.session_state.uploaded_images keeps the fields the       *)
(* handlers branch on (analysis, temp_path).  `serial` is a history field: *)
(* the number of records that were in the list when this one was appended. *)
(* `last` is history too: the interaction behind the last run, with the    *)
(* record it was about (analyze, select), the number of records it         *)
(* appended (upload) or the number of files it deleted (clear).            *)
(* The fields timestamp, image and filename are only displayed.            *)
(***************************************************************************)
EXTENDS Integers, Sequences, FiniteSets, TLC

\* Bounds of the model.
MaxImages == 3   \* records the session store may hold
MaxBatch == 3    \* files the uploader widget may hold at once

\* Python's None for the analysis field, and for the temp_path field.
None == "None"
NoPath == [kind |-> "none", n |-> 0]

\* f"temp_{idx}.jpg" (idx is the 0-based enumerate index).
TempPath(idx) == [kind |-> "temp", n |-> idx]
\* f"report_temp_{id(img_data)}.jpg": one name per record object.
ReportTempPath(rec) == [kind |-> "report_temp", n |-> rec.serial]

\* The scratch file names the bounded session can produce.
ScratchPaths ==
    {[kind |-> k, n |-> i] : k \in {"temp", "report_temp"}, i \in 0..(MaxImages - 1)}

\* The options of the sidebar radio; the first one is its default.
PageNames == {"Upload", "Gallery", "Analysis", "Reports"}

\* An uploaded file either opens as an image or makes Image.open raise.
FileKinds == {"image", "corrupt"}
\* What DeepFace.analyze(...)[0] may be: two distinguishable result dicts.
Results == {"r1", "r2"}

RECURSIVE SeqsUpTo(_)
SeqsUpTo(n) ==
    IF n = 0 THEN {<<>>}
    ELSE LET shorter == SeqsUpTo(n - 1)
         IN shorter \cup {Append(s, k) : s \in {t \in shorter : Len(t) = n - 1},
                                          k \in FileKinds}

\* The contents the file_uploader widget can have.
Batches == SeqsUpTo(MaxBatch)

VARIABLES
    uploaded_images,  \* st.session_state.uploaded_images
    uploader,         \* the files held by the widget with key "uploader"
    page,             \* the page selected in the sidebar radio
    selected,         \* the record chosen in the Analysis selectbox (1-based)
    disk,             \* the scratch files that exist in the working directory
    messages,         \* what the last script run showed: toasts and errors
    report,           \* the download the last script run offered, if any
    decoded,          \* history: files Image.open accepted since the last clear
    last              \* history: the interaction that triggered the last run

vars == <<uploaded_images, uploader, page, selected, disk, messages, report,
          decoded, last>>

Msg(kind, n) == [kind |-> kind, n |-> n]
NoReport == [offered |-> FALSE, pages |-> 0, records |-> <<>>, wrote |-> {}]
Did(op, idx, ok) == [op |-> op, idx |-> idx, ok |-> ok]

\* Truthiness of img_data["analysis"]: None is falsy, a result dict is not.
Truthy(analysis) == analysis # None

(***************************************************************************)
(* Upload branch                                                           *)
(***************************************************************************)
\* Image.open(uploaded_file) returns, or raises.
ImageOpens(f) == f = "image"

\* The dict built at lines 200-206.
NewRecord(n) == [serial |-> n, analysis |-> None, temp_path |-> NoPath]

\* One iteration of the for loop: try / append / except.
AppendFile(imgs, f) ==
    IF ImageOpens(f) THEN Append(imgs, NewRecord(Len(imgs))) ELSE imgs

RECURSIVE UploadLoopAbort(_, _)
UploadLoopAbort(imgs, files) ==
    IF files = <<>> \/ ~ImageOpens(Head(files)) THEN imgs
    ELSE UploadLoopAbort(AppendFile(imgs, Head(files)), Tail(files))

\* for uploaded_file in uploaded_files: ...
RECURSIVE UploadLoop(_, _)
UploadLoop(imgs, files) ==
    IF files = <<>> THEN imgs
    ELSE UploadLoop(AppendFile(imgs, Head(files)), Tail(files))

\* st.error(f"Error processing ...") of the except clause, one per file.
UploadErrors(files) ==
    {Msg("error_processing", i) : i \in {j \in 1..Len(files) : ~ImageOpens(files[j])}}

\* st.toast(f"Added {len(uploaded_files)} images to gallery!")
AddedToast(files) == Msg("added", Len(files))

\* if uploaded_files: <loop>; <toast>
UploadBranch(imgs, files) ==
    IF files = <<>> THEN [images |-> imgs, messages |-> {}]
    ELSE [images |-> UploadLoop(imgs, files),
          messages |-> UploadErrors(files) \cup {AddedToast(files)}]

\* History only: how many of the files Image.open accepts.
NumDecodable(files) == Cardinality({j \in 1..Len(files) : ImageOpens(files[j])})

Init ==
    /\ uploaded_images = <<>>
    /\ uploader = <<>>
    /\ page = "Upload"
    /\ selected = 1
    /\ disk = {}
    /\ messages = {}
    /\ report = NoReport
    /\ decoded = 0
    /\ last = Did("start", 0, TRUE)

\* The user changes the contents of the uploader; the script reruns on the
\* Upload page and the branch walks over every file the widget now holds.
ChooseFiles(batch) ==
    /\ page = "Upload"
    /\ Len(uploaded_images) + NumDecodable(batch) <= MaxImages
    /\ LET run == UploadBranch(uploaded_images, batch)
       IN /\ uploaded_images' = run.images
          /\ messages' = run.messages
    /\ uploader' = batch
    /\ decoded' = decoded + NumDecodable(batch)
    /\ report' = NoReport
    /\ last' = Did("upload", Len(uploaded_images') - Len(uploaded_images), TRUE)
    /\ UNCHANGED <<page, selected, disk>>

\* The user picks another page in the sidebar radio.  A widget that a run
\* does not render loses its state, so the uploader is empty afterwards;
\* the Analysis selectbox starts on its first option.
Navigate(p) ==
    /\ p # page
    /\ page' = p
    /\ uploader' = <<>>
    /\ selected' = 1
    /\ messages' = {}
    /\ report' = NoReport
    /\ last' = Did("navigate", 0, TRUE)
    /\ UNCHANGED <<uploaded_images, disk, decoded>>

\* The user picks another record in the selectbox of the Analysis page; the
\* page only reads the record.
Select(i) ==
    /\ page = "Analysis"
    /\ i \in 1..Len(uploaded_images)
    /\ i # selected
    /\ selected' = i
    /\ messages' = {}
    /\ report' = NoReport
    /\ last' = Did("select", i, TRUE)
    /\ UNCHANGED <<uploaded_images, uploader, page, disk, decoded>>

(***************************************************************************)
(* Gallery branch                                                          *)
(***************************************************************************)
\* The else branch of `if img_data["analysis"]`: the Analyze button is drawn.
AnalyzeOfferedAlways(i) == page = "Gallery" /\ i \in 1..Len(uploaded_images)

AnalyzeOffered(i) ==
    /\ page = "Gallery"
    /\ i \in 1..Len(uploaded_images)
    /\ ~Truthy(uploaded_images[i].analysis)

\* img_data["image"].save(img_path).  When the encoder raises (an image mode
\* JPEG cannot hold), the file that save() opened for writing may be left
\* behind or removed again, depending on the imaging library's version.
SaveImage(dsk, path, saves, kept) ==
    [disk |-> IF saves \/ kept THEN dsk \cup {path} ELSE dsk, raised |-> ~saves]

analyze_facesSilent(gw) ==
    IF gw = "raises" THEN [result |-> None, messages |-> {}]
    ELSE [result |-> gw, messages |-> {}]

\* analyze_faces: the result list of the inference call, or None after
\* st.error("Analysis failed: ...") when the call raises.
analyze_faces(gw) ==
    IF gw = "raises"
    THEN [result |-> None, messages |-> {Msg("analysis_failed", 0)}]
    ELSE [result |-> gw, messages |-> {}]

SetAnalysisShared(imgs, i, result, path) ==
    [j \in 1..Len(imgs) |-> [imgs[j] EXCEPT !.analysis = result, !.temp_path = path]]

SetAnalysisOnly(imgs, i, result, path) ==
    [imgs EXCEPT ![i].analysis = result]

\* img_data["analysis"] = analysis[0]; img_data["temp_path"] = img_path
SetAnalysis(imgs, i, result, path) ==
    [imgs EXCEPT ![i].analysis = result, ![i].temp_path = path]

\* The body of `if st.button(f"Analyze #{idx+1}")` for the record at list
\* position i (enumerate index i - 1).
AnalyzeClick(imgs, dsk, i, saves, kept, gw) ==
    LET img_path == TempPath(i - 1)
        saved == SaveImage(dsk, img_path, saves, kept)
        analysis == analyze_faces(gw)
    IN IF saved.raised
       THEN [images |-> imgs, disk |-> saved.disk, ok |-> FALSE,
             messages |-> {Msg("analysis_failed", 0)}]
       ELSE IF Truthy(analysis.result)
       THEN [images |-> SetAnalysis(imgs, i, analysis.result, img_path),
             disk |-> saved.disk, ok |-> TRUE,
             messages |-> {Msg("analysis_complete", 0)}]
       ELSE [images |-> imgs, disk |-> saved.disk, ok |-> FALSE,
             messages |-> analysis.messages]

\* The user clicks "Analyze #i" in the Gallery.
Analyze(i) ==
    /\ AnalyzeOffered(i)
    /\ \E saves \in BOOLEAN, kept \in BOOLEAN, gw \in Results \cup {"raises"} :
         LET run == AnalyzeClick(uploaded_images, disk, i, saves, kept, gw)
         IN /\ uploaded_images' = run.images
            /\ disk' = run.disk
            /\ messages' = run.messages
            /\ last' = Did("analyze", i, run.ok)
    /\ report' = NoReport
    /\ UNCHANGED <<uploader, page, selected, decoded>>

(***************************************************************************)
(* Reports branch                                                          *)
(***************************************************************************)
\* PDFReport(): a document without pages.
NewPDF == [page |-> 0, records |-> <<>>]

\* FPDF.add_page(): header and footer are drawn by the library.
add_page(pdf) == [pdf EXCEPT !.page = pdf.page + 1]

\* A call binds its arguments before the body runs: naming a parameter by
\* keyword that a positional argument already fills raises TypeError.
CallBinds(positional, keywords) == positional \cap keywords = {}

\* The arguments of the self.cell(...) call that draws one emotion bar:
\* six positional ones (w, h, txt, border, ln, align) and fill=, w=.
BarCellPositional == {"w", "h", "txt", "border", "ln", "align"}
BarCellKeywords == {"fill", "w"}

\* PDFReport.add_image_analysis.  The page is added first; self.image needs
\* the file; the emotion dict is never empty, so the bar loop (or max() on an
\* empty dict) is reached on every call.
add_image_analysis(pdf, img_path, rec, dsk) ==
    LET paged == add_page(pdf)
    IN IF img_path \notin dsk THEN [pdf |-> paged, raised |-> TRUE]
       ELSE IF ~CallBinds(BarCellPositional, BarCellKeywords)
       THEN [pdf |-> paged, raised |-> TRUE]
       ELSE [pdf |-> [paged EXCEPT !.records = Append(@, rec.serial)],
             raised |-> FALSE]

\* One iteration of `for img_data in st.session_state.uploaded_images`.
ReportStep(acc, rec) ==
    IF acc.raised \/ ~Truthy(rec.analysis) THEN acc
    ELSE LET hasTemp == rec.temp_path # NoPath
             img_path == IF hasTemp THEN rec.temp_path ELSE ReportTempPath(rec)
             dsk == IF hasTemp THEN acc.disk ELSE acc.disk \cup {img_path}
             wrote == IF hasTemp THEN acc.wrote ELSE acc.wrote \cup {img_path}
             added == add_image_analysis(acc.pdf, img_path, rec, dsk)
         IN IF added.raised
            THEN [pdf |-> added.pdf, disk |-> dsk, wrote |-> wrote, raised |-> TRUE]
            ELSE [pdf |-> added.pdf, wrote |-> wrote, raised |-> FALSE,
                  disk |-> IF hasTemp THEN dsk ELSE dsk \ {img_path}]

RECURSIVE ReportLoop(_, _)
ReportLoop(acc, imgs) ==
    IF imgs = <<>> THEN acc
    ELSE ReportLoop(ReportStep(acc, Head(imgs)), Tail(imgs))

outputRejectsEmpty(pdf) ==
    [raised |-> pdf.page = 0, pages |-> pdf.page]

\* pdf.output(dest='S').encode('latin-1'): output() closes the document, and
\* closing a document without pages adds one, which carries the header only.
output(pdf) ==
    [raised |-> FALSE, pages |-> IF pdf.page = 0 THEN pdf.page + 1 ELSE pdf.page]

\* The body of `if st.button("Generate Full Report PDF")`, try and except.
CompileReport(imgs, dsk) ==
    LET loop == ReportLoop([pdf |-> NewPDF, disk |-> dsk, wrote |-> {},
                            raised |-> FALSE], imgs)
        out == output(loop.pdf)
    IN IF loop.raised \/ out.raised
       THEN [disk |-> loop.disk, messages |-> {Msg("report_failed", 0)},
             report |-> [NoReport EXCEPT !.wrote = loop.wrote]]
       ELSE [disk |-> loop.disk, messages |-> {},
             report |-> [offered |-> TRUE, pages |-> out.pages,
                         records |-> loop.pdf.records, wrote |-> loop.wrote]]

\* The user clicks "Generate Full Report PDF"; the button exists only when
\* the store is not empty.
GenerateReport ==
    /\ page = "Reports"
    /\ uploaded_images # <<>>
    /\ LET run == CompileReport(uploaded_images, disk)
       IN /\ disk' = run.disk
          /\ messages' = run.messages
          /\ report' = run.report
    /\ last' = Did("report", 0, TRUE)
    /\ UNCHANGED <<uploaded_images, uploader, page, selected, decoded>>

(***************************************************************************)
(* Debug Console                                                           *)
(***************************************************************************)
\* main() reaches the Debug Console unless a branch returned before it.
DebugConsoleRendered ==
    \/ page = "Upload"
    \/ page \in {"Gallery", "Reports"} /\ uploaded_images # <<>>
    \/ /\ page = "Analysis"
       /\ uploaded_images # <<>>
       /\ Truthy(uploaded_images[selected].analysis)

\* Path(p).exists() and Path(p).unlink(); unlink raises on a missing file.
Exists(dsk, p) == p \in dsk
Unlink(dsk, p) ==
    IF p \in dsk THEN [disk |-> dsk \ {p}, raised |-> FALSE]
    ELSE [disk |-> dsk, raised |-> TRUE]

ClearStepUnchecked(acc, rec) ==
    IF acc.raised THEN acc
    ELSE IF rec.temp_path # NoPath THEN Unlink(acc.disk, rec.temp_path)
    ELSE acc

\* One iteration of the loop under `if st.button("Clear Cache")`.
ClearStep(acc, rec) ==
    IF acc.raised THEN acc
    ELSE IF rec.temp_path # NoPath /\ Exists(acc.disk, rec.temp_path)
    THEN Unlink(acc.disk, rec.temp_path)
    ELSE acc

RECURSIVE ClearLoop(_, _)
ClearLoop(acc, imgs) ==
    IF imgs = <<>> THEN acc
    ELSE ClearLoop(ClearStep(acc, Head(imgs)), Tail(imgs))

\* The user clicks "Clear Cache".  The run first draws the current page (on
\* the Upload page the branch walks over the uploader's files once more),
\* then deletes the scratch files, clears the session state (the store and
\* the "uploader" key) and reruns, which sets uploaded_images to [] again.
\* The browser may afterwards still hold the files it had in the widget.
\* An exception in the loop would leave main() for the handler at the
\* bottom of the file, before the session state is cleared.
ClearCache ==
    /\ DebugConsoleRendered
    /\ LET body == IF page = "Upload"
                   THEN UploadBranch(uploaded_images, uploader)
                   ELSE [images |-> uploaded_images, messages |-> {}]
           loop == ClearLoop([disk |-> disk, raised |-> FALSE], body.images)
       IN /\ disk' = loop.disk
          /\ IF loop.raised
             THEN /\ uploaded_images' = body.images
                  /\ messages' = body.messages \cup {Msg("critical_error", 0)}
                  /\ decoded' = decoded + (Len(body.images) - Len(uploaded_images))
                  /\ uploader' = uploader
             ELSE /\ uploaded_images' = <<>>
                  /\ messages' = {}
                  /\ decoded' = 0
                  /\ uploader' \in {<<>>, uploader}
          /\ last' = Did("clear", Cardinality(disk \ loop.disk), ~loop.raised)
    /\ report' = NoReport
    /\ UNCHANGED <<page, selected>>

\* A scratch file is removed from the working directory by something other
\* than this session (the case the exists() test of Clear Cache is for).
ScratchFileVanishes(p) ==
    /\ p \in disk
    /\ disk' = disk \ {p}
    /\ last' = Did("vanish", 0, TRUE)
    /\ UNCHANGED <<uploaded_images, uploader, page, selected, messages, report,
                   decoded>>

Next ==
    \/ \E batch \in Batches : ChooseFiles(batch)
    \/ \E p \in PageNames : Navigate(p)
    \/ \E i \in 1..MaxImages : Select(i)
    \/ \E i \in 1..MaxImages : Analyze(i)
    \/ GenerateReport
    \/ ClearCache
    \/ \E p \in ScratchPaths : ScratchFileVanishes(p)

Spec == Init /\ [][Next]_vars

(***************************************************************************)
(* Properties                                                              *)
(***************************************************************************)
IsAnalyzed(rec) == Truthy(rec.analysis)
NumAnalyzed(imgs) == Cardinality({i \in 1..Len(imgs) : IsAnalyzed(imgs[i])})
RECURSIVE AnalyzedSerials(_)
AnalyzedSerials(imgs) ==
    IF imgs = <<>> THEN <<>>
    ELSE IF IsAnalyzed(Head(imgs))
    THEN <<Head(imgs).serial>> \o AnalyzedSerials(Tail(imgs))
    ELSE AnalyzedSerials(Tail(imgs))
Referenced(imgs) == {imgs[i].temp_path : i \in 1..Len(imgs)} \ {NoPath}

\* C1: since the last clear, the store holds exactly as many records as files
\* were decoded over all Upload renders, and the record at list position i
\* (id i - 1) is the i-th one appended; a file that fails to decode adds
\* nothing and the files after it are still appended.
C1_CountAndOrder ==
    /\ Len(uploaded_images) = decoded
    /\ \A i \in 1..Len(uploaded_images) : uploaded_images[i].serial = i - 1

\* A batch of a valid file, a corrupt one and a valid one left two records
\* and one reported failure.
C1_Witness ==
    /\ last.op = "upload"
    /\ uploader = <<"image", "corrupt", "image">>
    /\ Len(uploaded_images) = 2
    /\ Msg("error_processing", 2) \in messages

\* C2: Generate Report on a store with k >= 1 analyzed records offers a
\* download of exactly k pages, one per analyzed record in insertion order.
C2_ReportPagePerAnalyzed ==
    (last.op = "report" /\ NumAnalyzed(uploaded_images) >= 1) =>
        /\ report.offered
        /\ report.pages = NumAnalyzed(uploaded_images)
        /\ report.records = AnalyzedSerials(uploaded_images)

\* C3: Clear leaves the store empty and none of the scratch files the records
\* referenced on disk, without failing (also when such a file is missing);
\* a Clear right after a Clear changes neither the store nor the disk.
C3_ClearEmptiesAndDeletes ==
    [][last'.op = "clear" =>
         /\ last'.ok
         /\ uploaded_images' = <<>>
         /\ Referenced(uploaded_images) \cap disk' = {}
         /\ Msg("critical_error", 0) \notin messages'
         /\ last.op = "clear" => (disk' = disk /\ uploaded_images' = uploaded_images)
      ]_vars

\* A Clear that deleted the scratch files of two analyzed records.
C3_Witness ==
    /\ last.op = "clear"
    /\ last.idx >= 2
    /\ uploaded_images = <<>>

\* C4: an analyze run on record i, successful or not, leaves every other
\* record as it was, and the number and order of the records.
C4_AnalyzeFrame ==
    [][last'.op = "analyze" =>
         /\ Len(uploaded_images') = Len(uploaded_images)
         /\ \A j \in 1..Len(uploaded_images) :
              /\ uploaded_images'[j].serial = uploaded_images[j].serial
              /\ j # last'.idx => uploaded_images'[j] = uploaded_images[j]
      ]_vars

\* A successful analyze in a store of three records, one of them analyzed
\* before and one still not analyzed.
C4_Witness ==
    /\ last.op = "analyze"
    /\ last.ok
    /\ Len(uploaded_images) = 3
    /\ \E j, k \in 1..3 :
         /\ j # last.idx /\ k # last.idx
         /\ IsAnalyzed(uploaded_images[j])
         /\ ~IsAnalyzed(uploaded_images[k])

C6_EmptyReportOffered ==
    (last.op = "report" /\ NumAnalyzed(uploaded_images) = 0) =>
        /\ report.offered
        /\ report.records = <<>>
        /\ report.pages <= 1
        /\ Msg("report_failed", 0) \notin messages

\* A report generated over two uploaded records, none analyzed.
C6_Witness ==
    /\ last.op = "report"
    /\ Len(uploaded_images) = 2
    /\ NumAnalyzed(uploaded_images) = 0
    /\ report.offered

\* C7: the count the Upload view reports equals the number of records the
\* run appended.
C7_ToastCountsAppended ==
    last.op = "upload" =>
        \A m \in messages : m.kind = "added" => m.n = last.idx

\* C8: the Analyze trigger acts only on a record whose analysis is unset, and
\* a set analysis stays as it is until Clear discards the whole store.
C8_AnalysisWrittenOnce ==
    [][/\ last'.op = "analyze" => ~IsAnalyzed(uploaded_images[last'.idx])
       /\ \A i \in 1..Len(uploaded_images) :
            IsAnalyzed(uploaded_images[i]) =>
                \/ last'.op = "clear" /\ uploaded_images' = <<>>
                \/ /\ i <= Len(uploaded_images')
                   /\ uploaded_images'[i].analysis = uploaded_images[i].analysis
      ]_vars

\* Another record was analyzed while an analyzed record shows its badge.
C8_Witness ==
    /\ page = "Gallery"
    /\ last.op = "analyze"
    /\ last.ok
    /\ \E i \in 1..Len(uploaded_images) :
         /\ i # last.idx
         /\ IsAnalyzed(uploaded_images[i])
         /\ ~AnalyzeOffered(i)

\* C9: a record has an analysis exactly when it has a temp_path, and no
\* report run has written a report_temp file.
C9_AnalysisIffTempPath ==
    /\ \A i \in 1..Len(uploaded_images) :
         IsAnalyzed(uploaded_images[i]) <=> uploaded_images[i].temp_path # NoPath
    /\ report.wrote = {}
    /\ \A p \in disk : p.kind # "report_temp"

\* A report run over a store with an analyzed and an unanalyzed record.
C9_Witness ==
    /\ last.op = "report"
    /\ \E i, j \in 1..Len(uploaded_images) :
         /\ IsAnalyzed(uploaded_images[i])
         /\ ~IsAnalyzed(uploaded_images[j])

\* C10: every temp_<idx>.jpg on disk is the temp_path of some record, and
\* after Clear no scratch file is left.
C10_ScratchFilesReferenced ==
    /\ \A p \in disk : p.kind = "temp" => p \in Referenced(uploaded_images)
    /\ last.op = "clear" => disk = {}
====
